---- MODULE Spec2Model ----
(***************************************************************************)
(* Gardner-Knopoff type 1 declustering (GardnerKnopoffType1.decluster) and *)
(* the distance/time window strategies (BaseDistanceTimeWindow and its     *)
(* three variants).                                                        *)
(*                                                                         *)
(* Numbers.  Magnitudes are held in tenths (40 is magnitude 4.0).  Window  *)
(* radii are whole kilometres and window durations whole days: the closed  *)
(* forms of the three variants are tabulated, rounded to the nearest unit, *)
(* for the magnitudes of MagnitudeValues.  Longitudes are kilometres along *)
(* the equator (all events have latitude 0).  year_dec is held multiplied  *)
(* by DaysPerYear, so that year + dayofyear / 365 is an integer; every     *)
(* comparison of a year_dec difference with a window duration multiplies   *)
(* the duration by DaysPerYear as well, which leaves the comparison of the *)
(* source unchanged.  year_dec is a numpy array when the catalogue has the *)
(* columns year, month and day, and a pandas Series when it has the column *)
(* time: it is held as [values, index], index being <<>> for the array and *)
(* the Series' labels otherwise.  The catalogue has the default index, so  *)
(* the label of a row is its number.  fs_time_prop is a fraction <<numerator,              *)
(* denominator>> with a positive denominator.  An optional value is <<>>   *)
(* (None) or <<v>>.  Arrays are sequences indexed from 1, so the source's  *)
(* position p is position p + 1 here.                                      *)
(***************************************************************************)
EXTENDS Integers, Sequences, FiniteSets, TLC

VARIABLES
    pc,            \* "decluster", "loop", "returned"; "call", "called"
    catalogue,     \* the rows handed to decluster: [magnitude, longitude, time]
    columns,       \* the columns in which the catalogue holds the time
    window,        \* the window object: [variant, time_cutoff]
    config,        \* GKConfig without the window: [fs_time_prop, time_cutoff]
    magnitude,     \* magnitude array (decluster local / argument of __call__)
    longitude,     \* decluster local, reordered by id0
    year_dec,      \* decluster local, reordered by id0: [values, index]
    sw_space,      \* decluster local, reordered by id0
    sw_time,       \* decluster local, reordered by id0
    eqid,          \* decluster local: original row of each position
    cluster_ids,   \* decluster local, then the first returned array
    shock_types,   \* decluster local, then the second returned array
    clust_index,   \* decluster local
    i,             \* loop variable of the clustering pass
    seeds,         \* history: seeds[k] is the original row that seeded cluster k
    returned       \* what __call__ returned: [sw_space, sw_time]

vars == <<pc, catalogue, columns, window, config, magnitude, longitude,
          year_dec, sw_space, sw_time, eqid, cluster_ids, shock_types,
          clust_index, i, seeds, returned>>

(***************************************************************************)
(* Bounds and input sets.                                                  *)
(***************************************************************************)
MaxEvents == 3

MagnitudeValues == {40, 50, 60, 65, 70}

CatalogueMagnitudes == {40, 50, 60}

\* line 115: the columns that make use_time_columns true
YearMonthDay == {"year", "month", "day"}

\* the catalogue holds the time in year, month, day or in time
ColumnSets == { YearMonthDay, {"time"} }

\* where and when an event of a catalogue with year, month, day is: two
\* events of one place a day apart, and one 25 km away and thirty years
\* later (there is no time of day: hour is 0)
DaySituations ==
    { [longitude |-> 0,  time |-> [year |-> 2000, dayofyear |-> 1, hour |-> 0]],
      [longitude |-> 0,  time |-> [year |-> 2000, dayofyear |-> 2, hour |-> 0]],
      [longitude |-> 25, time |-> [year |-> 2030, dayofyear |-> 1, hour |-> 0]] }

\* where and when an event of a catalogue with a time column is: two events
\* of one place 12 hours apart, and one 25 km away and thirty years later
Situations ==
    { [longitude |-> 0,  time |-> [year |-> 2000, dayofyear |-> 1, hour |-> 8]],
      [longitude |-> 0,  time |-> [year |-> 2000, dayofyear |-> 1, hour |-> 20]],
      [longitude |-> 25, time |-> [year |-> 2030, dayofyear |-> 1, hour |-> 8]] }

Variants == {"GardnerKnopoff", "Gruenthal", "Uhrhammer"}

\* fs_time_prop: the documented range is [0, 1], nothing enforces it
FsZero == <<0, 1>>

FsHalf == <<1, 2>>

FsOne == <<1, 1>>

FsNegative == <<0 - 1, 2>>

\* the configurations decluster is run with: [variant, fs_time_prop, time_cutoff]
DeclusterConfigs ==
    [variant : Variants, fs_time_prop : {FsZero, FsOne}, time_cutoff : {<<>>}]
    \cup
    { [variant |-> "GardnerKnopoff", fs_time_prop |-> FsHalf, time_cutoff |-> <<>>],
      [variant |-> "GardnerKnopoff", fs_time_prop |-> FsNegative, time_cutoff |-> <<>>],
      [variant |-> "GardnerKnopoff", fs_time_prop |-> FsOne, time_cutoff |-> <<20>>],
      [variant |-> "Uhrhammer", fs_time_prop |-> FsHalf, time_cutoff |-> <<20>>],
      [variant |-> "GardnerKnopoff", fs_time_prop |-> FsOne, time_cutoff |-> <<0 - 10>>] }

\* the configurations run on a catalogue with a time column
TimestampConfigs ==
    { c \in DeclusterConfigs :
        /\ c.variant \in {"GardnerKnopoff", "Gruenthal"}
        /\ c.fs_time_prop \in {FsZero, FsOne}
        /\ c.time_cutoff = <<>> }

ConfigsFor(cols) ==
    IF YearMonthDay \subseteq cols THEN DeclusterConfigs ELSE TimestampConfigs

CallCutoffs == { <<>>, <<0>>, <<20>>, <<100>>, <<900>>, <<0 - 10>> }

Rows(cols) ==
    { [magnitude |-> m, longitude |-> sit.longitude, time |-> sit.time] :
        m \in CatalogueMagnitudes,
        sit \in IF YearMonthDay \subseteq cols THEN DaySituations ELSE Situations }

\* rows of the longer catalogues
SparseRows(cols) ==
    { r \in Rows(cols) :
        r.magnitude <= 50 /\ r.time.dayofyear = 1 /\ r.time.hour # 20 }

SeqsUpTo(S, n) == UNION { [1..k -> S] : k \in 0..n }

\* catalogues of up to MaxEvents rows, and of one row more from SparseRows
Catalogues(cols) ==
    SeqsUpTo(Rows(cols), MaxEvents) \cup [1..(MaxEvents + 1) -> SparseRows(cols)]

(***************************************************************************)
(* Small helpers.                                                          *)
(***************************************************************************)
Min(a, b) == IF a <= b THEN a ELSE b

Max(a, b) == IF a >= b THEN a ELSE b

Abs(a) == IF a >= 0 THEN a ELSE 0 - a

Range(s) == { s[k] : k \in DOMAIN s }

\* numpy fancy indexing a[idx]
Take(a, idx) == [k \in DOMAIN idx |-> a[idx[k]]]

\* strict order of the times of two events
Before(t, u) ==
    \/ t.year < u.year
    \/ t.year = u.year /\ t.dayofyear < u.dayofyear
    \/ t.year = u.year /\ t.dayofyear = u.dayofyear /\ t.hour < u.hour

(***************************************************************************)
(* Window strategies: the _calc closed forms, tabulated.                   *)
(***************************************************************************)
GK_space ==
    (40 :> 30) @@ (50 :> 40) @@ (60 :> 53) @@ (65 :> 61) @@ (70 :> 71)

GK_time_hi ==
    (40 :> 736) @@ (50 :> 792) @@ (60 :> 853) @@ (65 :> 885) @@ (70 :> 918)

GK_time_lo ==
    (40 :> 41) @@ (50 :> 144) @@ (60 :> 499) @@ (65 :> 931) @@ (70 :> 1735)

GR_space ==
    (40 :> 45) @@ (50 :> 57) @@ (60 :> 70) @@ (65 :> 78) @@ (70 :> 86)

GR_time_lo ==
    (40 :> 82) @@ (50 :> 219) @@ (60 :> 531) @@ (65 :> 804) @@ (70 :> 1199)

GR_time_hi ==
    (40 :> 787) @@ (50 :> 832) @@ (60 :> 879) @@ (65 :> 904) @@ (70 :> 929)

UH_space ==
    (40 :> 9) @@ (50 :> 20) @@ (60 :> 45) @@ (65 :> 67) @@ (70 :> 100)

UH_time ==
    (40 :> 8) @@ (50 :> 27) @@ (60 :> 94) @@ (65 :> 174) @@ (70 :> 322)

\* magnitude 6.5, in tenths: where the piecewise duration formulas switch
PiecewiseMagnitude == 65

GardnerKnopoffWindow_calc(mag) ==
    [ sw_space |-> [k \in DOMAIN mag |-> GK_space[mag[k]]],
      sw_time  |-> [k \in DOMAIN mag |->
                      IF mag[k] < PiecewiseMagnitude
                      THEN GK_time_lo[mag[k]] ELSE GK_time_hi[mag[k]]] ]

GruenthalWindow_calc(mag) ==
    [ sw_space |-> [k \in DOMAIN mag |-> GR_space[mag[k]]],
      sw_time  |-> [k \in DOMAIN mag |->
                      IF mag[k] >= PiecewiseMagnitude
                      THEN GR_time_hi[mag[k]] ELSE Abs(GR_time_lo[mag[k]])] ]

UhrhammerWindow_calc(mag) ==
    [ sw_space |-> [k \in DOMAIN mag |-> UH_space[mag[k]]],
      sw_time  |-> [k \in DOMAIN mag |-> UH_time[mag[k]]] ]

\* dispatch of self._calc on the variant
Window_calc(variant, mag) ==
    CASE variant = "GardnerKnopoff" -> GardnerKnopoffWindow_calc(mag)
      [] variant = "Gruenthal"      -> GruenthalWindow_calc(mag)
      [] variant = "Uhrhammer"      -> UhrhammerWindow_calc(mag)

\* np.clip(a, a_min, a_max) == minimum(a_max, maximum(a, a_min))
Clip(a, a_min, a_max) == [k \in DOMAIN a |-> Min(a_max, Max(a[k], a_min))]

\* Python truthiness of an optional number: None and 0 are false
Truthy(opt) == opt # <<>> /\ opt[1] # 0

SecondsPerDay == 86400

\* pd.Timedelta(days=t), held in seconds
Timedelta(days) == days * SecondsPerDay

BaseDistanceTimeWindow_call(self, mag) ==
    LET w == Window_calc(self.variant, mag)
        clipped == IF Truthy(self.time_cutoff)
                   THEN Clip(w.sw_time, 0, self.time_cutoff[1])
                   ELSE w.sw_time
    IN  [ sw_space |-> w.sw_space,
          sw_time  |-> [k \in DOMAIN clipped |-> Timedelta(clipped[k])] ]

\* calc(magnitude, time_cutoff): the variant's windows with the configured
\* cutoff applied as a maximum of every duration
Window_calc_cutoff(variant, mag, time_cutoff) ==
    LET w == Window_calc(variant, mag)
    IN  [ sw_space |-> w.sw_space,
          sw_time  |-> IF time_cutoff # <<>>
                       THEN [k \in DOMAIN mag |-> Min(w.sw_time[k], time_cutoff[1])]
                       ELSE w.sw_time ]

\* great-circle distance of two points of the equator, in km
haversine(lon1, lon2) == Abs(lon1 - lon2)

DaysPerYear == 365

\* time.dt.year + time.dt.dayofyear / 365, multiplied by DaysPerYear
YearDec(t) == DaysPerYear * t.year + t.dayofyear

\* decimal_year(year, month, day): the year plus the day of the year over
\* 365, multiplied by DaysPerYear
decimal_year(t) == DaysPerYear * t.year + t.dayofyear

\* year_dec[p] for the integer p: by position in a numpy array, by label in
\* a pandas Series with an integer index
Scalar(yd, p) ==
    IF yd.index = <<>>
    THEN yd.values[p]
    ELSE yd.values[CHOOSE q \in DOMAIN yd.index : yd.index[q] = p]

(***************************************************************************)
(* np.argsort(v, kind="heapsort"): numpy's indirect heapsort.  a is the    *)
(* index array, v the keys; the heap is a[1..n].                           *)
(***************************************************************************)
RECURSIVE SiftDown(_, _, _, _, _)
\* the inner loop: sink tmp from position p of the heap a[1..n]
SiftDown(v, a, tmp, p, n) ==
    LET j0 == 2 * p
    IN  IF j0 > n
        THEN [a EXCEPT ![p] = tmp]
        ELSE LET j == IF j0 < n /\ v[a[j0]] < v[a[j0 + 1]] THEN j0 + 1 ELSE j0
             IN  IF v[tmp] < v[a[j]]
                 THEN SiftDown(v, [a EXCEPT ![p] = a[j]], tmp, j, n)
                 ELSE [a EXCEPT ![p] = tmp]

RECURSIVE BuildHeap(_, _, _, _)
\* for (l = n >> 1; l > 0; --l)
BuildHeap(v, a, l, n) ==
    IF l = 0 THEN a
    ELSE BuildHeap(v, SiftDown(v, a, a[l], l, n), l - 1, n)

RECURSIVE PopHeap(_, _, _)
\* for (; n > 1;): move the maximum to a[n], sink the old a[n] from the root
PopHeap(v, a, n) ==
    IF n <= 1 THEN a
    ELSE PopHeap(v, SiftDown(v, [a EXCEPT ![n] = a[1]], a[n], 1, n - 1), n - 1)

argsort_heapsort(v) ==
    LET n == Len(v)
        a0 == [k \in 1..n |-> k]
    IN  PopHeap(v, BuildHeap(v, a0, n \div 2, n), n)

\* mutant: the reversal forgotten
flipud_forgotten(a) == a

\* np.flipud of a one-dimensional array
flipud(a) == [k \in DOMAIN a |-> a[Len(a) + 1 - k]]

\* id0: the visiting order, as rows of the catalogue
SortOrder(mag) == flipud(argsort_heapsort(mag))

(***************************************************************************)
(* One pass of the loop body of decluster, lines 159-192, on the position  *)
(* p.  A is the record of the reordered arrays, st the record of the       *)
(* arrays the pass writes.                                                 *)
(***************************************************************************)
\* dt = year_dec - year_dec[p], at position j
Dt(A, p, j) == A.year_dec.values[j] - Scalar(A.year_dec, p)

\* the time-window half of vsel: fs = fs_time_prop, as <<num, den>>
InTimeWindow(A, fs, p, j) ==
    /\ Dt(A, p, j) * fs[2] >= 0 - (DaysPerYear * A.sw_time[p] * fs[1])
    /\ Dt(A, p, j) <= DaysPerYear * A.sw_time[p]

\* vsel after the distance test
Vsel(A, fs, st, p) ==
    { j \in DOMAIN st.cluster_ids :
        /\ st.cluster_ids[j] = 0
        /\ InTimeWindow(A, fs, p, j)
        /\ haversine(A.longitude[j], A.longitude[p]) <= A.sw_space[p] }

\* temp_vsel: vsel without the seed
TempVsel(A, fs, st, p) == Vsel(A, fs, st, p) \ {p}

\* mutant: every event before the seed, selected or not
Foreshocks_unmasked(A, fs, st, p) ==
    { j \in DOMAIN st.cluster_ids \ {p} : ~ (Dt(A, p, j) >= 0) }

\* mutant: temp_vsel[dt > 0.0] = False
Foreshocks_strict(A, fs, st, p) ==
    { j \in TempVsel(A, fs, st, p) : ~ (Dt(A, p, j) > 0) }

\* temp_vsel after temp_vsel[dt >= 0.0] = False
Foreshocks(A, fs, st, p) == { j \in TempVsel(A, fs, st, p) : ~ (Dt(A, p, j) >= 0) }

\* mutant: clust_index += 1 forgotten
FormCluster_no_increment(A, fs, st, p) ==
    LET vsel == Vsel(A, fs, st, p)
        fore == Foreshocks(A, fs, st, p)
    IN  [ cluster_ids |-> [j \in DOMAIN st.cluster_ids |->
                             IF j \in vsel THEN st.clust_index + 1
                             ELSE st.cluster_ids[j]],
          shock_types |-> [j \in DOMAIN st.shock_types |->
                             IF j = p THEN 0
                             ELSE IF j \in fore THEN 0 - 1
                             ELSE IF j \in vsel THEN 1
                             ELSE st.shock_types[j]],
          clust_index |-> st.clust_index ]

\* lines 185-192
FormCluster(A, fs, st, p) ==
    LET vsel == Vsel(A, fs, st, p)
        fore == Foreshocks(A, fs, st, p)
    IN  [ cluster_ids |-> [j \in DOMAIN st.cluster_ids |->
                             IF j \in vsel THEN st.clust_index + 1
                             ELSE st.cluster_ids[j]],
          shock_types |-> [j \in DOMAIN st.shock_types |->
                             IF j = p THEN 0
                             ELSE IF j \in fore THEN 0 - 1
                             ELSE IF j \in vsel THEN 1
                             ELSE st.shock_types[j]],
          clust_index |-> st.clust_index + 1 ]

\* lines 159-192: what one iteration makes of st
LoopBody(A, fs, st, p) ==
    IF st.cluster_ids[p] = 0 /\ TempVsel(A, fs, st, p) # {}
    THEN FormCluster(A, fs, st, p)
    ELSE st

\* mutant: range(0, neq)
LastVisited_all(neq) == neq

\* last position the loop visits: range(0, neq - 1)
LastVisited(neq) == neq - 1

(***************************************************************************)
(* decluster as a function of its arguments.                               *)
(***************************************************************************)
\* lines 111-155: the arrays before the pass
Prepared(cat, cols, win, cfg) ==
    LET mag == [k \in DOMAIN cat |-> cat[k].magnitude]
        w   == Window_calc_cutoff(win.variant, mag, cfg.time_cutoff)
        id0 == SortOrder(mag)
        yd  == IF YearMonthDay \subseteq cols
               THEN [ values |-> [k \in DOMAIN cat |-> decimal_year(cat[k].time)],
                      index  |-> <<>> ]
               ELSE [ values |-> [k \in DOMAIN cat |-> YearDec(cat[k].time)],
                      index  |-> [k \in DOMAIN cat |-> k] ]
    IN  [ magnitude |-> mag,
          longitude |-> Take([k \in DOMAIN cat |-> cat[k].longitude], id0),
          year_dec  |-> [ values |-> Take(yd.values, id0),
                          index  |-> IF yd.index = <<>> THEN <<>>
                                     ELSE Take(yd.index, id0) ],
          sw_space  |-> Take(w.sw_space, id0),
          sw_time   |-> Take(w.sw_time, id0),
          eqid      |-> Take([k \in DOMAIN cat |-> k], id0) ]

Zeros(n) == [k \in 1..n |-> 0]

RECURSIVE Pass(_, _, _, _)
\* the iterations p, p + 1, ... of the loop
Pass(A, fs, st, p) ==
    IF p > LastVisited(Len(A.eqid)) THEN st
    ELSE Pass(A, fs, LoopBody(A, fs, st, p), p + 1)

\* lines 195-198
Restored(A, st) ==
    LET id1 == argsort_heapsort(A.eqid)
    IN  [ eqid        |-> Take(A.eqid, id1),
          cluster_ids |-> Take(st.cluster_ids, id1),
          shock_types |-> Take(st.shock_types, id1) ]

decluster(cat, cols, win, cfg) ==
    LET A   == Prepared(cat, cols, win, cfg)
        st0 == [ cluster_ids |-> Zeros(Len(cat)), shock_types |-> Zeros(Len(cat)),
                 clust_index |-> 0 ]
    IN  Restored(A, Pass(A, cfg.fs_time_prop, st0, 1))

(***************************************************************************)
(* The state machine.                                                      *)
(***************************************************************************)
Arrays ==
    [ magnitude |-> magnitude, longitude |-> longitude, year_dec |-> year_dec,
      sw_space |-> sw_space, sw_time |-> sw_time, eqid |-> eqid ]

State ==
    [ cluster_ids |-> cluster_ids, shock_types |-> shock_types,
      clust_index |-> clust_index ]

\* decluster is entered with a catalogue of either kind
Init ==
    /\ pc = "decluster"
    /\ columns \in ColumnSets
    /\ catalogue \in Catalogues(columns)
    /\ \E c \in ConfigsFor(columns) :
          /\ window = [variant |-> c.variant, time_cutoff |-> <<>>]
          /\ config = [fs_time_prop |-> c.fs_time_prop, time_cutoff |-> c.time_cutoff]
    /\ magnitude = <<>>
    /\ longitude = <<>>
    /\ year_dec = [values |-> <<>>, index |-> <<>>]
    /\ sw_space = <<>>
    /\ sw_time = <<>>
    /\ eqid = <<>>
    /\ cluster_ids = <<>>
    /\ shock_types = <<>>
    /\ clust_index = 0
    /\ i = 0
    /\ seeds = <<>>
    /\ returned = <<>>

\* lines 111-157
Prepare ==
    /\ pc = "decluster"
    /\ LET A == Prepared(catalogue, columns, window, config)
       IN  /\ magnitude' = A.magnitude
           /\ longitude' = A.longitude
           /\ year_dec' = A.year_dec
           /\ sw_space' = A.sw_space
           /\ sw_time' = A.sw_time
           /\ eqid' = A.eqid
    /\ cluster_ids' = Zeros(Len(catalogue))
    /\ shock_types' = Zeros(Len(catalogue))
    /\ clust_index' = 0
    /\ i' = 1
    /\ pc' = "loop"
    /\ UNCHANGED <<catalogue, columns, window, config, seeds, returned>>

InLoop == pc = "loop" /\ i <= LastVisited(Len(eqid))

\* line 159 false: the position is already in a cluster
SkipClustered ==
    /\ InLoop
    /\ cluster_ids[i] # 0
    /\ i' = i + 1
    /\ UNCHANGED <<pc, catalogue, columns, window, config, magnitude, longitude,
                   year_dec, sw_space, sw_time, eqid, cluster_ids, shock_types,
                   clust_index, seeds, returned>>

\* line 183 false: nothing but the seed is selected
NoCluster ==
    /\ InLoop
    /\ cluster_ids[i] = 0
    /\ TempVsel(Arrays, config.fs_time_prop, State, i) = {}
    /\ i' = i + 1
    /\ UNCHANGED <<pc, catalogue, columns, window, config, magnitude, longitude,
                   year_dec, sw_space, sw_time, eqid, cluster_ids, shock_types,
                   clust_index, seeds, returned>>

\* lines 184-192
NewCluster ==
    /\ InLoop
    /\ cluster_ids[i] = 0
    /\ TempVsel(Arrays, config.fs_time_prop, State, i) # {}
    /\ LET st == LoopBody(Arrays, config.fs_time_prop, State, i)
       IN  /\ cluster_ids' = st.cluster_ids
           /\ shock_types' = st.shock_types
           /\ clust_index' = st.clust_index
    /\ seeds' = Append(seeds, eqid[i])
    /\ i' = i + 1
    /\ UNCHANGED <<pc, catalogue, columns, window, config, magnitude, longitude,
                   year_dec, sw_space, sw_time, eqid, returned>>

\* lines 194-200
Return ==
    /\ pc = "loop"
    /\ ~ (i <= LastVisited(Len(eqid)))
    /\ LET r == Restored(Arrays, State)
       IN  /\ eqid' = r.eqid
           /\ cluster_ids' = r.cluster_ids
           /\ shock_types' = r.shock_types
    /\ pc' = "returned"
    /\ UNCHANGED <<catalogue, columns, window, config, magnitude, longitude,
                   year_dec, sw_space, sw_time, clust_index, i, seeds, returned>>

Next == Prepare \/ SkipClustered \/ NoCluster \/ NewCluster \/ Return

Spec == Init /\ [][Next]_vars

(***************************************************************************)
(* The window object called on its own: BaseDistanceTimeWindow.__call__.   *)
(***************************************************************************)
InitCall ==
    /\ pc = "call"
    /\ catalogue = <<>>
    /\ columns = {}
    /\ window \in [variant : Variants, time_cutoff : CallCutoffs]
    /\ config = [fs_time_prop |-> FsOne, time_cutoff |-> <<>>]
    /\ magnitude \in SeqsUpTo(MagnitudeValues, MaxEvents)
    /\ longitude = <<>>
    /\ year_dec = [values |-> <<>>, index |-> <<>>]
    /\ sw_space = <<>>
    /\ sw_time = <<>>
    /\ eqid = <<>>
    /\ cluster_ids = <<>>
    /\ shock_types = <<>>
    /\ clust_index = 0
    /\ i = 0
    /\ seeds = <<>>
    /\ returned = <<>>

\* lines 96-100
Call ==
    /\ pc = "call"
    /\ returned' = BaseDistanceTimeWindow_call(window, magnitude)
    /\ pc' = "called"
    /\ UNCHANGED <<catalogue, columns, window, config, magnitude, longitude,
                   year_dec, sw_space, sw_time, eqid, cluster_ids, shock_types,
                   clust_index, i, seeds>>

NextCall == Call

SpecCall == InitCall /\ [][NextCall]_vars

(***************************************************************************)
(* Vocabulary of the properties.  seeds[k] is a row of the catalogue; the  *)
(* arrays are indexed by position during the pass and by row once          *)
(* decluster has returned, and eqid[p] is the row at index p in both.      *)
(***************************************************************************)
Passing == pc = "loop"

Returned == pc = "returned"

Rws == DOMAIN magnitude

Index(row) == CHOOSE p \in DOMAIN eqid : eqid[p] = row

ClusterOf(row) == cluster_ids[Index(row)]

ShockOf(row) == shock_types[Index(row)]

Members(k) == { r \in Rws : ClusterOf(r) = k }

Mainshocks(k) == { r \in Members(k) : ShockOf(r) = 0 }

TimeOf(row) == catalogue[row].time

\* fs_time_prop in [0, 1] and no negative cutoff
DocumentedConfig ==
    /\ config.fs_time_prop[1] >= 0
    /\ config.fs_time_prop[1] <= config.fs_time_prop[2]
    /\ (config.time_cutoff = <<>> \/ config.time_cutoff[1] >= 0)

DistinctMagnitudes ==
    \A r1, r2 \in DOMAIN catalogue :
        r1 # r2 => catalogue[r1].magnitude # catalogue[r2].magnitude

RowPermutations(n) == { f \in [1..n -> 1..n] : \A a, b \in 1..n : a # b => f[a] # f[b] }

(***************************************************************************)
(* C1.  As claimed: in the returned arrays every cluster id 1..clust_index *)
(* has exactly one member with shock_type 0, and it is the row that seeded *)
(* the cluster.  The claim is made for every configuration decluster       *)
(* accepts; it is stated here for the documented ones, fs_time_prop in     *)
(* [0, 1] and no negative cutoff.                                          *)
(***************************************************************************)
C1_OneMainshockPerCluster ==
    (Returned /\ DocumentedConfig) =>
        \A k \in 1..clust_index : Mainshocks(k) = {seeds[k]}

(***************************************************************************)
(* C2.  After every iteration of the pass and in the returned arrays,      *)
(* every event with cluster id 0 has shock_type 0.                         *)
(***************************************************************************)
C2_UnclusteredIsMainshock ==
    (Passing \/ Returned) =>
        \A p \in DOMAIN cluster_ids : cluster_ids[p] = 0 => shock_types[p] = 0

\* a cluster was formed, and an event before its seed stayed out of it
C2_Witness ==
    /\ Returned
    /\ \E r1, r2 \in Rws :
          /\ ClusterOf(r1) = 0
          /\ ShockOf(r2) # 0
          /\ Before(TimeOf(r1), TimeOf(seeds[ClusterOf(r2)]))

(***************************************************************************)
(* C3.  As claimed: positions are visited by descending magnitude, and     *)
(* equal magnitudes by descending row of the catalogue.                    *)
(***************************************************************************)
C3_TiesByDescendingRow ==
    Passing =>
        \A p, q \in DOMAIN eqid :
            p < q =>
                \/ magnitude[eqid[p]] > magnitude[eqid[q]]
                \/ magnitude[eqid[p]] = magnitude[eqid[q]] /\ eqid[p] > eqid[q]

\* C3, amended: the visiting order is a permutation of the rows by
\* descending magnitude; the order among equal magnitudes is the heapsort's,
\* reversed, and is not in general by descending row.
C3_DescendingMagnitude ==
    Passing =>
        /\ Range(eqid) = Rws
        /\ \A p, q \in DOMAIN eqid : p < q => magnitude[eqid[p]] >= magnitude[eqid[q]]

\* three rows, two of equal magnitude visited by ascending row
C3_Witness ==
    /\ Passing
    /\ Len(eqid) >= 3
    /\ \E p, q \in DOMAIN eqid :
          p < q /\ magnitude[eqid[p]] = magnitude[eqid[q]] /\ eqid[p] < eqid[q]
    /\ \E p, q \in DOMAIN eqid : magnitude[eqid[p]] > magnitude[eqid[q]]

(***************************************************************************)
(* C4.  As claimed: for fs_time_prop in [0, 1], no member of a returned    *)
(* cluster has a magnitude above that of the cluster's seed.               *)
(***************************************************************************)
C4_SeedIsLargest ==
    (Returned /\ DocumentedConfig) =>
        \A r \in Rws :
            ClusterOf(r) # 0 => magnitude[r] <= magnitude[seeds[ClusterOf(r)]]

(***************************************************************************)
(* C5.  As claimed: for every permutation of the rows, decluster of the    *)
(* permuted catalogue gives every event the cluster id and shock type it   *)
(* has in the run on the catalogue itself.  It is stated for catalogues    *)
(* whose magnitudes differ pairwise, where the visiting order does not     *)
(* depend on the order of the rows.                                        *)
(***************************************************************************)
Equivariant ==
    \A f \in RowPermutations(Len(catalogue)) :
        LET permuted == [k \in DOMAIN catalogue |-> catalogue[f[k]]]
            r == decluster(permuted, columns, window, config)
        IN  \A k \in DOMAIN catalogue :
                /\ r.cluster_ids[k] = cluster_ids[f[k]]
                /\ r.shock_types[k] = shock_types[f[k]]

C5_PermutationEquivariance == (Returned /\ DistinctMagnitudes) => Equivariant

(***************************************************************************)
(* C6.  The nonzero cluster ids are exactly 1..K for the K clusters        *)
(* formed, and the seed of cluster k is visited before that of k + 1.      *)
(***************************************************************************)
C6_SequentialIds ==
    (Passing \/ Returned) =>
        /\ Len(seeds) = clust_index
        /\ { cluster_ids[p] : p \in DOMAIN cluster_ids } \ {0} = 1..clust_index
        /\ Passing =>
             \A k \in 1..(clust_index - 1) : Index(seeds[k]) < Index(seeds[k + 1])

\* two clusters at the end of the pass
C6_Witness ==
    /\ Passing
    /\ ~ InLoop
    /\ clust_index = 2

(***************************************************************************)
(* C7.  With fs_time_prop = 0 no returned shock type is -1.                *)
(***************************************************************************)
C7_NoForeshockWithoutWindow ==
    (Returned /\ config.fs_time_prop[1] = 0) =>
        \A p \in DOMAIN shock_types : shock_types[p] # 0 - 1

\* fs_time_prop = 0, a cluster with a member at the seed's own year_dec, and
\* an event of an earlier year in the catalogue
C7_Witness ==
    /\ Returned
    /\ config.fs_time_prop[1] = 0
    /\ clust_index >= 1
    /\ \E r \in Members(1) \ {seeds[1]} : YearDec(TimeOf(r)) = YearDec(TimeOf(seeds[1]))
    /\ \E r \in Rws : TimeOf(r).year < TimeOf(seeds[1]).year

(***************************************************************************)
(* C8.  The event at the last position of the visiting order never seeds   *)
(* a cluster: it is not a seed, it never has a nonzero cluster id with     *)
(* shock_type 0, and it keeps cluster id 0 when no seed absorbed it.       *)
(***************************************************************************)
LastRow == SortOrder(magnitude)[Len(magnitude)]

C8_LastNeverSeeds ==
    ((Passing \/ Returned) /\ Len(magnitude) >= 1) =>
        /\ LastRow \notin Range(seeds)
        /\ ~ (ClusterOf(LastRow) # 0 /\ ShockOf(LastRow) = 0)
        /\ ShockOf(LastRow) = 0 => ClusterOf(LastRow) = 0

\* the pass is over, the last event is in no cluster, and an event still in
\* no cluster lies in its window
C8_Witness ==
    /\ Passing
    /\ ~ InLoop
    /\ Len(eqid) >= 2
    /\ cluster_ids[Len(eqid)] = 0
    /\ TempVsel(Arrays, config.fs_time_prop, State, Len(eqid)) # {}

(***************************************************************************)
(* C9.  As claimed: a clustered event that is not the seed of its cluster  *)
(* has shock_type -1 exactly when its time is strictly before the seed's,  *)
(* and 1 exactly when it is at or after it; a seed has shock_type 0.       *)
(***************************************************************************)
C9_ShockTypeByTime ==
    (Returned /\ DocumentedConfig) =>
        /\ \A k \in 1..clust_index : ShockOf(seeds[k]) = 0
        /\ \A r \in Rws :
              (ClusterOf(r) # 0 /\ r # seeds[ClusterOf(r)]) =>
                  LET s == seeds[ClusterOf(r)]
                  IN  /\ ShockOf(r) = 0 - 1 <=> Before(TimeOf(r), TimeOf(s))
                      /\ ShockOf(r) = 1 <=> ~ Before(TimeOf(r), TimeOf(s))

(***************************************************************************)
(* C10.  As claimed: __call__ returns, when a cutoff c is configured, the  *)
(* minimum of the variant's duration and c, and the variant's duration     *)
(* when none is configured.                                                *)
(***************************************************************************)
C10_CutoffIsMinimum ==
    pc = "called" =>
        LET raw == Window_calc(window.variant, magnitude).sw_time
        IN  \A k \in DOMAIN magnitude :
                returned.sw_time[k] =
                    Timedelta(IF window.time_cutoff # <<>>
                              THEN Min(raw[k], window.time_cutoff[1])
                              ELSE raw[k])

(***************************************************************************)
(* C11.  As claimed: once an event has a nonzero cluster id, every later   *)
(* iteration of the pass leaves its cluster id and its shock type          *)
(* unchanged and never takes it as a seed; and every event with a cluster  *)
(* id is in the cluster of the earliest-visited seed whose window          *)
(* contained it: it lies in the window of the seed of its cluster and in   *)
(* the window of no seed of an earlier cluster.  The window of a seed is   *)
(* its radius sw_space and its duration sw_time around its own place and   *)
(* time.                                                                   *)
(***************************************************************************)
\* the event at position j lies in the window of the event at position p
InWindowOf(p, j) ==
    LET dt == year_dec.values[j] - year_dec.values[p]
        fs == config.fs_time_prop
    IN  /\ dt * fs[2] >= 0 - (DaysPerYear * sw_time[p] * fs[1])
        /\ dt <= DaysPerYear * sw_time[p]
        /\ haversine(longitude[j], longitude[p]) <= sw_space[p]

\* an iteration leaves the clustered events alone and seeds with none of them
ClusteredIsFrozen ==
    (Passing /\ pc' = "loop") =>
        \A p \in DOMAIN cluster_ids :
            cluster_ids[p] # 0 =>
                /\ cluster_ids'[p] = cluster_ids[p]
                /\ shock_types'[p] = shock_types[p]
                /\ seeds' # seeds => seeds'[Len(seeds')] # eqid[p]

\* every clustered event is in the cluster of the first seed that had it in
\* its window
InEarliestCluster ==
    Passing =>
        \A j \in DOMAIN cluster_ids :
            cluster_ids[j] # 0 =>
                /\ InWindowOf(Index(seeds[cluster_ids[j]]), j)
                /\ \A k \in 1..(cluster_ids[j] - 1) :
                      Index(seeds[k]) # j => ~ InWindowOf(Index(seeds[k]), j)

C11_ClusteredOnce == [][ClusteredIsFrozen]_vars /\ []InEarliestCluster

====
